---- MODULE Spec2Model ----
(***************************************************************************)
(* Model of the search_kicks toolkit: the orbit I/O module                 *)
(* (search_kicks/tools/io.py), the kick-localization algorithm             *)
(* (search_kicks/core/get_kick.py) and the legacy MATLAB helpers           *)
(* (search_kicks/tools/matlab.py).                                         *)
(*                                                                         *)
(* The initial state holds one pending call of a public function: its     *)
(* arguments and, in call.env, what the file system, the network and the   *)
(* wall clock will answer.  Each function is one action that runs the      *)
(* pending call to its return or to the exception it raises.               *)
(*   call   - the call: function, arguments, environment answers           *)
(*   pc     - "ready" before the call runs, "done" after; "saved" between  *)
(*            the save and the load of a legacy round trip                 *)
(*   calls  - the functions entered while it ran, in order                 *)
(*   ret    - its outcome: the value returned or the exception raised      *)
(*   locale - the process-wide locale                                      *)
(*   disk   - the file a save wrote                                        *)
(*   http   - the request sent to the archiver                             *)
(***************************************************************************)
EXTENDS Integers, Sequences, FiniteSets, TLC

VARIABLES call, pc, calls, ret, locale, disk, http

vars == <<call, pc, calls, ret, locale, disk, http>>

----------------------------------------------------------------------------
(* Bounds of the model *)

MaxSamples == 2     \* sample counts (last axis of an array) range over 1..MaxSamples
MaxNdim    == 3     \* arrays have 1..MaxNdim dimensions
MaxNameLen == 3     \* a file name has 1..MaxNameLen tokens
MaxArgs    == 4     \* load_orbit is called with 0..MaxArgs arguments
MaxTime    == 8     \* instants are 0..MaxTime, the wall clock reads 0..MaxTime-1
SecPerWeek == 2     \* instants per ISO week
WeeksPerYear == 2   \* ISO weeks per ISO year
MaxBpm     == 2     \* get_kick: number of BPMs (windows) ranges over 1..MaxBpm
MaxRms     == 1     \* get_kick: a window's residual ranges over 0..MaxRms
MaxC       == 3     \* get_kick: a fitted phase offset ranges over -MaxC..1 (units of pi/PiDen)
MaxPhase   == 1     \* get_kick: a BPM phase ranges over 0..MaxPhase (units of pi/PiDen)
MaxTune    == 4     \* get_kick: the tune ranges over 0..MaxTune (units of 1/PiDen)
PiDen      == 4     \* angles are integer multiples of pi/PiDen
MaxChannels == 2    \* matlab.py: a channel group has 1..MaxChannels channels

----------------------------------------------------------------------------
(* Python values and outcomes *)

None == [type |-> "NoneType", v |-> <<>>]

NdArray(shape) == [type |-> "ndarray", v |-> shape]

PyList == [type |-> "list", v |-> <<>>]

\* An exception leaving the function: Python class, the error kind its message
\* states, and the values the message names.
Raise(exc, err, info) == [kind |-> "raise", exc |-> exc, err |-> err, info |-> info]

Return(value) == [kind |-> "return", value |-> value]

NoError == [kind |-> "pass"]

\* The first exception of a sequence of checks run in order, NoError if none raises.
RECURSIVE FirstError(_)
FirstError(checks) ==
    IF checks = <<>> THEN NoError
    ELSE IF Head(checks).kind = "raise" THEN Head(checks)
    ELSE FirstError(Tail(checks))

\* Shapes whose leading axes hold one channel; the last axis is the sample axis.
Shapes ==
    { s \in UNION { [1..d -> 1..MaxSamples] : d \in 1..MaxNdim } :
        \A i \in 1..(Len(s) - 1) : s[i] = 1 }

ArrayArgs == {None, PyList} \cup { NdArray(s) : s \in Shapes }

----------------------------------------------------------------------------
(* io.py: OrbitData *)

\* io.py:92-106.  sample_nb is the enclosing __init__'s local, read only here.
check_single_arrays(name, item, sample_nb) ==
    IF item # None THEN NoError                                  \* 93-94
    ELSE IF item.type # "ndarray" \/ item.type # "ndarray"       \* 96
         THEN Raise("TypeError", "TypeMismatch", <<name, item.type>>)
    ELSE IF Len(item.v) # 2                                  \* 99
         THEN Raise("ValueError", "ShapeMismatch", <<name>>)
    ELSE IF sample_nb # 0 /\ sample_nb # item.v[2]           \* 103
         THEN Raise("ValueError", "InconsistentSampleCount",
                    <<name, item.v[2], sample_nb>>)
    ELSE NoError

\* io.py:87-119.  The constructor: the four checks in order, then the fields.
OrbitData(BPMx, BPMy, CMx, CMy, sampling_frequency, measure_date) ==
    LET sample_nb == 0                                           \* 90
        failed == FirstError(<<check_single_arrays("BPMx", BPMx, sample_nb),
                               check_single_arrays("BPMy", BPMy, sample_nb),
                               check_single_arrays("CMx", CMx, sample_nb),
                               check_single_arrays("CMy", CMy, sample_nb)>>)
    IN  IF failed.kind = "raise" THEN failed
        ELSE Return([BPMx |-> BPMx, BPMy |-> BPMy, CMx |-> CMx, CMy |-> CMy,
                     sampling_frequency |-> sampling_frequency,
                     sample_number |-> sample_nb,
                     measure_date |-> measure_date])

----------------------------------------------------------------------------
(* What a call leaves behind *)

\* The outcome of running a function: `out` the value returned or the exception
\* raised, `calls` the functions entered, and the process locale, the file
\* written and the HTTP request sent when it ended.
Run(out, entered, loc, file, request) ==
    [out |-> out, calls |-> entered, locale |-> loc, disk |-> file, http |-> request]

NoFile == [name |-> <<>>, written |-> FALSE]

NoRequest == [sent |-> FALSE, INDEX |-> "", STARTSTR |-> 0, ENDSTR |-> 0, NAMES |-> ""]

\* A function that touches neither the locale, the disk nor the network.
Pure(out, entered, loc) == Run(out, entered, loc, NoFile, NoRequest)

----------------------------------------------------------------------------
(* File names *)

\* A file name is a sequence of tokens: "." and "/" are the characters
\* os.path.splitext looks for, the other tokens are runs of other characters.
NameTokens == {"a", ".", "/", "hdf5", "mat", "npy", "xyz"}

Names == UNION { [1..n -> NameTokens] : n \in 1..MaxNameLen }

HDF5 == <<".", "hdf5">>
MAT  == <<".", "mat">>
NPY  == <<".", "npy">>

\* str.rfind: the last position of token ch in p, 0 when there is none.
rfind(p, ch) ==
    LET at == { i \in 1..Len(p) : p[i] = ch }
    IN  IF at = {} THEN 0 ELSE CHOOSE i \in at : \A j \in at : j <= i

\* os.path.splitext as io.py:52 and io.py:212 call it: the extension starts at
\* the last dot after the last separator, leading dots of the base name aside.
splitext(p) ==
    LET sepIndex == rfind(p, "/")
        dotIndex == rfind(p, ".")
    IN  IF dotIndex > sepIndex
           /\ \E j \in (sepIndex + 1)..(dotIndex - 1) : p[j] # "."
        THEN <<SubSeq(p, 1, dotIndex - 1), SubSeq(p, dotIndex, Len(p))>>
        ELSE <<p, <<>> >>

PyTuple(items) == [type |-> "tuple", v |-> items]

PyStr(text) == [type |-> "str", v |-> text]

\* Python's == between two values: values of different types are unequal.
PyEq(x, y) == x.type = y.type /\ x.v = y.v

----------------------------------------------------------------------------
(* io.py: the versioned-record loaders and the container save *)

DateTime(t) == [type |-> "datetime", v |-> <<t>>]

\* The __version__ tag a file holds, "absent" when it holds none.
VersionTags == {"absent", "1.0", "2.0"}

\* What a saved record holds for a channel group: an omitted group or a
\* [channel x sample] array.
StoredArrays == {None} \cup { NdArray(<<1, n>>) : n \in 1..MaxSamples }

\* What np.load(filename)[0] gives: the saved dict.  measure_date is "iso" when
\* the text parses under DATETIME_ISO.
NpyFiles ==
    [version : VersionTags, BPMx : StoredArrays, BPMy : StoredArrays,
     CMx : StoredArrays, CMy : StoredArrays, measure_date : {"iso", "other"}]

\* io.py:142-167
load_orbit_npy(data, loc) ==
    LET me == <<"load_orbit_npy">>
    IN  IF data.version = "absent"                                        \* 149
        THEN Pure(Raise("ValueError", "MissingVersion", <<>>), me, loc)
        ELSE IF data.version = "1.0"                                      \* 152
        THEN IF data.measure_date # "iso"                                 \* 158 strptime
             THEN Pure(Raise("ValueError", "Unclassified", <<"measure_date">>), me, loc)
             ELSE Pure(OrbitData(data.BPMx, data.BPMy, data.CMx, data.CMy,
                                 150, DateTime(0)),
                       me \o <<"OrbitData">>, loc)
        ELSE Pure(Raise("NotImplementedError", "UnsupportedVersion",      \* 164
                        <<data.version>>), me, loc)

\* What h5py hands out for a dataset: never None, never an ndarray.
Datasets == { [type |-> "Dataset", v |-> <<1, n>>] : n \in 1..MaxSamples }

\* An opened container: its __version__ attribute and its four datasets.
Hdf5Files ==
    [version : VersionTags, BPMx : Datasets, BPMy : Datasets,
     CMx : Datasets, CMy : Datasets]

\* io.py:185-204
load_orbit_hdf5(f, loc) ==
    LET me == <<"load_orbit_hdf5">>
    IN  IF f.version # "absent" /\ f.version = "1.0"                      \* 189
        THEN Pure(OrbitData(f.BPMx, f.BPMy, f.CMx, f.CMy, 150,
                            PyTuple(<<"measure_date", "DATETIME_ISO">>)),
                  me \o <<"OrbitData">>, loc)
        ELSE IF f.version = "absent"                                      \* 202 f.attrs['__version__']
        THEN Pure(Raise("KeyError", "Unclassified", <<"__version__">>), me, loc)
        ELSE Pure(Raise("NotImplementedError", "UnsupportedVersion",      \* 200
                        <<f.version>>), me, loc)

\* The records handed to a save: measure_date is a datetime or was left None.
SaveObjs ==
    { [BPMx |-> a, BPMy |-> a, CMx |-> a, CMy |-> a, sampling_frequency |-> 150,
       sample_number |-> 0, measure_date |-> d] :
        a \in { NdArray(<<1, n>>) : n \in 1..MaxSamples }, d \in {DateTime(0), None} }

\* io.py:212-213.  The name of the file the save opens.
hdf5_target(filename) ==
    IF ~PyEq(PyTuple(splitext(filename)), PyStr(HDF5))                    \* 212
    THEN filename \o HDF5                                                 \* 213
    ELSE filename

\* io.py:207-224.  The file is created at 215; a record without a date fails
\* at 222, after the file was created.
save_orbit_hdf5(filename, obj, loc) ==
    LET file == [name |-> hdf5_target(filename), written |-> TRUE]
        out == IF obj.measure_date.type = "datetime" THEN Return(None)
               ELSE Raise("AttributeError", "Unclassified", <<"strftime">>)
    IN  Run(out, <<"save_orbit_hdf5">>, loc, file, NoRequest)

----------------------------------------------------------------------------
(* io.py: the measurement-dump loader *)

\* The keys load_orbit_dump requires, in the order it checks them (244-247).
DumpKeys == <<"difforbitX", "difforbitY", "CMx", "CMy", "__version__", "__header__">>

\* What scipy.io.loadmat gives: `cells` the channel-group keys present (each one
\* cell per sample, each cell a column of `channels` values), the version tag and
\* the header ("ctime": 'Created on: ' followed by a ctime date; "nomarker": no
\* 'Created on: '; "baddate": the text after it is no ctime date).
DumpFiles ==
    [cells : SUBSET {"difforbitX", "difforbitY", "CMx", "CMy"},
     version : VersionTags,
     header : {"absent", "ctime", "nomarker", "baddate"},
     channels : {1}, sample_nb : 1..MaxSamples]

\* `key in data`
dump_has(data, key) ==
    IF key = "__version__" THEN data.version # "absent"
    ELSE IF key = "__header__" THEN data.header # "absent"
    ELSE key \in data.cells

\* io.py:248-252.  The first required key the file lacks, as a sequence of at
\* most one key.
first_missing(data) ==
    LET lacking == { i \in 1..Len(DumpKeys) : ~dump_has(data, DumpKeys[i]) }
    IN  IF lacking = {} THEN <<>>
        ELSE << DumpKeys[CHOOSE i \in lacking : \A j \in lacking : i <= j] >>

\* io.py:227-288
load_orbit_dump(data, loc) ==
    LET me == <<"load_orbit_dump">>
        shape == <<data.channels, data.sample_nb>>                        \* 263-273
    IN  IF ~dump_has(data, "__version__")                                 \* 234 prints, 237 reads the key
        THEN Pure(Raise("KeyError", "Unclassified", <<"__version__">>), me, loc)
        ELSE IF data.version # "1.0"                                      \* 237-242
        THEN Pure(Raise("NotImplementedError", "UnsupportedVersion",
                        <<data.version>>), me, loc)
        ELSE IF first_missing(data) # <<>>                                \* 248-252
        THEN Pure(Raise("ValueError", "MissingField", first_missing(data)), me, loc)
        ELSE IF data.header = "nomarker"                                  \* 256 sets, 258 fails
        THEN Pure(Raise("IndexError", "Unclassified", <<"Created on: ">>),
                  me, "en_US.utf8")
        ELSE IF data.header = "baddate"                                   \* 256 sets, 259 fails
        THEN Pure(Raise("ValueError", "Unclassified", <<"strptime">>),
                  me, "en_US.utf8")
        ELSE Pure(OrbitData(NdArray(shape), NdArray(shape), NdArray(shape),
                            NdArray(shape), 150, DateTime(0)),            \* 281-286
                  me \o <<"OrbitData">>, loc)                             \* 261 restores loc

----------------------------------------------------------------------------
(* io.py: the archiver client *)

\* What a caller may pass for a time.
TimeArgs == {None, PyStr(<<>>)} \cup { DateTime(t) : t \in 0..MaxTime }

\* datetime.isocalendar(): <<ISO year, ISO week number>> of an instant.
isocalendar(t) ==
    << t \div (SecPerWeek * WeeksPerYear), ((t \div SecPerWeek) % WeeksPerYear) + 1 >>

\* read_time_checks with the start time, not the end time, compared to now.
read_time_checks_start_vs_now(t0, t1, now) ==
    IF t0.type # "datetime" \/ t1.type # "datetime"
    THEN Raise("TypeError", "TypeMismatch", <<>>)
    ELSE IF t0.v[1] > t1.v[1]
    THEN Raise("ValueError", "InvalidRange", <<"order">>)
    ELSE IF t0.v[1] > now
    THEN Raise("ValueError", "InvalidRange", <<"future">>)
    ELSE NoError

\* io.py:336-346.  The checks on the two times, `now` being datetime.now().
read_time_checks(t0, t1, now) ==
    IF t0.type # "datetime" \/ t1.type # "datetime"                       \* 336
    THEN Raise("TypeError", "TypeMismatch", <<>>)
    ELSE IF t0.v[1] > t1.v[1]                                             \* 340
    THEN Raise("ValueError", "InvalidRange", <<"order">>)
    ELSE IF t1.v[1] > now                                                 \* 344
    THEN Raise("ValueError", "InvalidRange", <<"future">>)
    ELSE NoError

\* io.py:348-353.  The index the request names.
read_index(t0, now) ==
    LET same_week == isocalendar(now)[2] = isocalendar(t0.v[1])[2]        \* 348
    IN  IF same_week THEN "/opt/Archive/current_week/index"
        ELSE "/opt/Archive/master_index"

\* '\n'.join(var) for a list of names (io.py:355-356).
RECURSIVE join(_)
join(names) ==
    IF Len(names) <= 1 THEN names
    ELSE <<Head(names), "\n">> \o join(Tail(names))

VarArgs == {PyStr(<<"ddd">>), [type |-> "list", v |-> <<"ddd", "eee">>]}

\* The service's answers: no answer (urlopen raises), or a body of lines, each
\* the name of the variable it samples.
Responses ==
    {[ok |-> FALSE, body |-> <<>>]} \cup
    { [ok |-> TRUE, body |-> b] : b \in {<<>>, <<"ddd">>, <<"ddd", "eee", "ddd">>} }

\* io.py:305-329.  The dict: for each name, how many samples the body holds.
filter_camonitor(body) ==
    [ key \in { body[i] : i \in 1..Len(body) } |->
        Cardinality({ i \in 1..Len(body) : body[i] = key }) ]

\* io.py:331-373
Archiver_read(var, t0, t1arg, env, loc) ==
    LET me == <<"Archiver.read">>
        t1 == IF t1arg = None THEN t0 ELSE t1arg                          \* 333
        failed == read_time_checks(t0, t1, env.now)
        request == [sent |-> TRUE, INDEX |-> read_index(t0, env.now),
                    STARTSTR |-> t0.v[1], ENDSTR |-> t1.v[1],
                    NAMES |-> IF var.type = "list" THEN join(var.v) ELSE var.v]
    IN  IF failed.kind = "raise" THEN Pure(failed, me, loc)
        ELSE IF ~env.response.ok                                          \* 370
        THEN Run(Raise("URLError", "Unclassified", <<>>), me \o <<"urlopen">>,
                 loc, NoFile, request)
        ELSE Run(Return(filter_camonitor(env.response.body)),             \* 371
                 me \o <<"urlopen", "filter_camonitor">>, loc, NoFile, request)

\* io.py:291-299
load_orbit_from_archiver(t_start, t_end, env, loc) ==
    LET r == Archiver_read(PyStr(<<"ddd">>), t_start, t_end, env, loc)    \* 293
        via == <<"load_orbit_from_archiver">> \o r.calls
    IN  IF r.out.kind = "raise" THEN [r EXCEPT !.calls = via]
        ELSE IF DOMAIN r.out.value = {}                                   \* 295
        THEN [r EXCEPT !.calls = via, !.out = Raise("RuntimeError", "NoData", <<>>)]
        ELSE [r EXCEPT !.calls = via]                                     \* 299

\* io.py:72 with io.py:291.  load_orbit_from_archiver(*args): the function takes
\* exactly two positional parameters, any other count is Python's TypeError and
\* the function is not entered.
call_load_orbit_from_archiver(args, env, loc) ==
    IF Len(args) # 2
    THEN Pure(Raise("TypeError", "ArgumentCount", <<Len(args)>>), <<>>, loc)
    ELSE load_orbit_from_archiver(args[1], args[2], env, loc)

----------------------------------------------------------------------------
(* io.py: the load dispatcher *)

\* io.py:36-74.  env.file is what the named file holds.
load_orbit(args, env, loc) ==
    LET me == <<"load_orbit">>
        Via(r) == [r EXCEPT !.calls = me \o @]
    IN  IF Len(args) = 1                                                  \* 50
        THEN LET filename == args[1]
                 ext == splitext(filename)[2]                             \* 52
             IN  IF ext = HDF5 THEN Via(load_orbit_hdf5(env.file, loc))
                 ELSE IF ext = MAT THEN Via(load_orbit_dump(env.file, loc))
                 ELSE IF ext = NPY THEN Via(load_orbit_npy(env.file, loc))
                 ELSE Pure(Raise("ValueError", "UnsupportedFormat", <<filename>>),
                           me, loc)                                       \* 69
        ELSE IF Len(args) = 2 \/ Len(args) = 3                            \* 71
        THEN Via(call_load_orbit_from_archiver(args, env, loc))
        ELSE Pure(Raise("ValueError", "InvalidArguments", <<>>), me, loc) \* 74

----------------------------------------------------------------------------
(* get_kick.py *)

\* Python's int() of the rational num/den (den > 0): truncation toward zero.
PyInt(num, den) == IF num >= 0 THEN num \div den ELSE -((-num) \div den)

Abs(x) == IF x < 0 THEN -x ELSE x

\* IsBetter with an equal residual replacing the best one too.
IsBetter_or_equal(rms, best_rms, i) == rms <= best_rms \/ i = 0

\* get_kick.py:58.  Whether window i's residual becomes the best one.
IsBetter(rms, best_rms, i) == rms < best_rms \/ i = 0

\* get_kick.py:46-60.  The loop over the windows from index i on (0-based),
\* rms_tab[i+1] being the residual line 56 computes for window i.
RECURSIVE best_window(_, _, _, _)
best_window(rms_tab, i, best_rms, i_best) ==
    IF i >= Len(rms_tab) THEN i_best
    ELSE IF IsBetter(rms_tab[i + 1], best_rms, i)
         THEN best_window(rms_tab, i + 1, rms_tab[i + 1], i)
         ELSE best_window(rms_tab, i + 1, best_rms, i_best)

\* get_kick.py:64.  k = int((apriori_phase + c)/pi + tune), angles in pi/PiDen.
kick_k(apriori_phase, c, tune) == PyInt(apriori_phase + c + tune, PiDen)

\* get_kick.py:65.  solutions = -c - pi*tune + [k, k+1]*pi.
kick_solutions(c, tune, k) == << -c - tune + k * PiDen, -c - tune + (k + 1) * PiDen >>

\* get_kick.py:66.  np.argmin: the first index of the smallest distance.
argmin_abs(solutions, apriori_phase) ==
    IF Abs(solutions[1] - apriori_phase) <= Abs(solutions[2] - apriori_phase)
    THEN 1 ELSE 2

\* get_kick.py:35-67,132.  fits[i+1] = [b, c, rms] is what fit_sine and line 56
\* give for window i; plotting (69-131) draws and changes nothing returned.
get_kick(phase, tune, fits) ==
    LET bpm_nb == Len(phase)
        rms_tab == [j \in 1..bpm_nb |-> fits[j].rms]
        cos_coefficients == [j \in 1..bpm_nb |-> <<fits[j].b, fits[j].c>>]
        i_best == best_window(rms_tab, 0, 0, -1)
        c == cos_coefficients[i_best + 1][2]
        apriori_phase == phase[i_best + 1]
        k == kick_k(apriori_phase, c, tune)
        solutions == kick_solutions(c, tune, k)
        idx == argmin_abs(solutions, apriori_phase)
    IN  Return([kick_phase |-> solutions[idx],
                cos_coefficients |-> cos_coefficients[(i_best % bpm_nb) + 1],
                i_best |-> i_best, rms_tab |-> rms_tab,
                apriori_phase |-> apriori_phase, k |-> k, solutions |-> solutions])

\* What fit_sine and the residual sum can give for one window.
Fits == [b : {1}, c : (-MaxC)..1, rms : 0..MaxRms]


----------------------------------------------------------------------------
(* matlab.py: the legacy time-analysis files *)

\* A numpy array of two dimensions with its values: `v` the shape, `at[j][i]`
\* the value of row j, column i.
TimeArray(dtype, rows, cols, at) ==
    [type |-> "ndarray", v |-> <<rows, cols>>, dtype |-> dtype, at |-> at]

\* The array a caller holds for channel group g: the reading of channel j at
\* sample i is a value found nowhere else in the four arrays.
Capture(g, dtype, rows, cols) ==
    TimeArray(dtype, rows, cols, [j \in 1..rows |-> [i \in 1..cols |-> <<g, j, i>>]])

TimeanalysKeys == <<"difforbitX", "difforbitY", "CMx", "CMy">>

\* matlab.py:48-51.  a[:, i, np.newaxis]: column i of a as an array of one column.
column(a, i) == TimeArray(a.dtype, a.v[1], 1, [j \in 1..a.v[1] |-> <<a.at[j][i]>>])

\* matlab.py:38-56.  The sample count is BPMx's (40); the loop reads column i of
\* every group (48-51), which raises IndexError for a group with fewer columns.
\* The file holds, per key, one cell per sample.
save_timeanalys(filename, BPMx, BPMy, CMx, CMy, loc) ==
    LET me == <<"save_timeanalys">>
        sample_nb == BPMx.v[2]                                            \* 40
        groups == <<BPMx, BPMy, CMx, CMy>>
        cells(a) == [i \in 1..sample_nb |-> column(a, i)]                 \* 42-51
        short == { g \in 1..4 : groups[g].v[2] < sample_nb }
        least == CHOOSE n \in { groups[g].v[2] : g \in short } :
                     \A g \in short : n <= groups[g].v[2]
        first == CHOOSE g \in short :
                     /\ groups[g].v[2] = least
                     /\ \A h \in short : groups[h].v[2] = least => g <= h
    IN  IF short # {}
        THEN Pure(Raise("IndexError", "Unclassified", <<TimeanalysKeys[first]>>), me, loc)
        ELSE Run(Return(TRUE), me, loc,                                   \* 56
                 [name |-> filename, written |-> TRUE,                    \* 54
                  content |-> [difforbitX |-> cells(BPMx), difforbitY |-> cells(BPMy),
                               CMx |-> cells(CMx), CMy |-> cells(CMy)]],
                 NoRequest)

\* timeanalys_group reading the first cell for every sample.
timeanalys_group_first_sample(cells, nb, sample_nb) ==
    TimeArray("float64", nb, sample_nb,
              [j \in 1..nb |-> [i \in 1..sample_nb |-> cells[1].at[j][1]]])

\* matlab.py:20-33.  One group rebuilt from its cells: a float array of zeros
\* (20-23) whose element [j, i] is then set to element [j, 0] of cell i (25-33).
timeanalys_group(cells, nb, sample_nb) ==
    TimeArray("float64", nb, sample_nb,
              [j \in 1..nb |-> [i \in 1..sample_nb |-> cells[i].at[j][1]]])

\* matlab.py:11-35.  `file` is the file scipy.io.loadmat opens for the name.
load_timeanalys(file, loc) ==
    LET me == <<"load_timeanalys">>
        data == file.content                                              \* 12
        sample_nb == Len(data.difforbitX)                                 \* 14
        nb(cells) == cells[1].v[1]                                        \* 15-18
        group(cells) == timeanalys_group(cells, nb(cells), sample_nb)
    IN  IF sample_nb = 0                                                  \* 15: [0, 0] of no cell
        THEN Pure(Raise("IndexError", "Unclassified", <<"difforbitX">>), me, loc)
        ELSE Pure(Return(PyTuple(<<group(data.difforbitX), group(data.difforbitY),
                                   group(data.CMx), group(data.CMy)>>)),  \* 35
                  me, loc)

\* The element types of the arrays a caller passes.
Dtypes == {"float64", "int64"}

\* The names a caller saves under.
MatNames == {<<"a">>, <<"a">> \o MAT}

----------------------------------------------------------------------------
(* State machine *)

\* What the environment answers during a call: what the file read holds, what
\* datetime.now() reads and what the archiver answers.
Env(file, now, response) == [file |-> file, now |-> now, response |-> response]

NoEnv == Env(None, 0, [ok |-> FALSE, body |-> <<>>])

ArchiverEnvs == { Env(None, now, r) : now \in 0..(MaxTime - 1), r \in Responses }

Call(fn, args, env) == [fn |-> fn, args |-> args, env |-> env]

\* The files a name may stand for: a name a loader is chosen for holds a file
\* of that loader's format.
FilesNamed(filename) ==
    LET ext == splitext(filename)[2]
    IN  IF ext = HDF5 THEN Hdf5Files
        ELSE IF ext = MAT THEN DumpFiles
        ELSE IF ext = NPY THEN NpyFiles
        ELSE {None}

\* Argument lists of n times; the lists of two times range over every time.
FewTimeArgs == {None, DateTime(0), DateTime(1)}

TimeLists(n) == IF n = 2 THEN [1..n -> TimeArgs] ELSE [1..n -> FewTimeArgs]

\* The locales a process may start in.
StartLocales == {"C", "de_DE.utf8"}

Pending(c) ==
    /\ call = c
    /\ pc = "ready"
    /\ calls = <<>>
    /\ ret = NoError
    /\ locale \in StartLocales
    /\ disk = NoFile
    /\ http = NoRequest

Init ==
    \/ \E BPMx \in ArrayArgs, BPMy \in ArrayArgs, CMx \in ArrayArgs, CMy \in ArrayArgs :
          Pending(Call("OrbitData", <<BPMx, BPMy, CMx, CMy>>, NoEnv))
    \/ \E filename \in Names : \E file \in FilesNamed(filename) :
          Pending(Call("load_orbit", <<filename>>, Env(file, 0, NoEnv.response)))
    \/ \E n \in (0..MaxArgs) \ {1} : \E args \in TimeLists(n) :
          \E env \in (IF n \in {2, 3} THEN ArchiverEnvs ELSE {NoEnv}) :
              Pending(Call("load_orbit", args, env))
    \/ \E data \in NpyFiles :
          Pending(Call("load_orbit_npy", <<>>, Env(data, 0, NoEnv.response)))
    \/ \E f \in Hdf5Files :
          Pending(Call("load_orbit_hdf5", <<>>, Env(f, 0, NoEnv.response)))
    \/ \E filename \in Names, obj \in SaveObjs :
          Pending(Call("save_orbit_hdf5", <<filename, obj>>, NoEnv))
    \/ \E data \in DumpFiles :
          Pending(Call("load_orbit_dump", <<>>, Env(data, 0, NoEnv.response)))
    \/ \E t_start \in TimeArgs, t_end \in TimeArgs, env \in ArchiverEnvs :
          Pending(Call("load_orbit_from_archiver", <<t_start, t_end>>, env))
    \/ \E var \in VarArgs, t0 \in TimeArgs, t1 \in TimeArgs, env \in ArchiverEnvs :
          Pending(Call("Archiver.read", <<var, t0, t1>>, env))

\* The pending call ran and left r.
Finish(r) ==
    /\ pc' = "done"
    /\ calls' = r.calls
    /\ ret' = r.out
    /\ locale' = r.locale
    /\ disk' = r.disk
    /\ http' = r.http
    /\ UNCHANGED call

Ready(fn) == pc = "ready" /\ call.fn = fn

CallOrbitData ==
    /\ Ready("OrbitData")
    /\ Finish(Pure(OrbitData(call.args[1], call.args[2], call.args[3], call.args[4],
                             150, None),
                   <<"OrbitData">>, locale))

CallLoadOrbit ==
    /\ Ready("load_orbit")
    /\ Finish(load_orbit(call.args, call.env, locale))

CallLoadOrbitNpy ==
    /\ Ready("load_orbit_npy")
    /\ Finish(load_orbit_npy(call.env.file, locale))

CallLoadOrbitHdf5 ==
    /\ Ready("load_orbit_hdf5")
    /\ Finish(load_orbit_hdf5(call.env.file, locale))

CallSaveOrbitHdf5 ==
    /\ Ready("save_orbit_hdf5")
    /\ Finish(save_orbit_hdf5(call.args[1], call.args[2], locale))

CallLoadOrbitDump ==
    /\ Ready("load_orbit_dump")
    /\ Finish(load_orbit_dump(call.env.file, locale))

CallLoadOrbitFromArchiver ==
    /\ Ready("load_orbit_from_archiver")
    /\ Finish(load_orbit_from_archiver(call.args[1], call.args[2], call.env, locale))

CallArchiverRead ==
    /\ Ready("Archiver.read")
    /\ Finish(Archiver_read(call.args[1], call.args[2], call.args[3], call.env, locale))

Next ==
    \/ CallOrbitData
    \/ CallLoadOrbit
    \/ CallLoadOrbitNpy
    \/ CallLoadOrbitHdf5
    \/ CallSaveOrbitHdf5
    \/ CallLoadOrbitDump
    \/ CallLoadOrbitFromArchiver
    \/ CallArchiverRead

Spec == Init /\ [][Next]_vars

\* get_kick alone: the inputs are the phase profile, the tune and what the fit
\* gives for each window.
InitKick ==
    \E bpm_nb \in 1..MaxBpm :
        \E phase \in [1..bpm_nb -> 0..MaxPhase], tune \in 0..MaxTune,
           fits \in [1..bpm_nb -> Fits] :
            /\ Pending(Call("get_kick", <<phase, tune, fits>>, NoEnv))
            /\ locale = "C"

CallGetKick ==
    /\ Ready("get_kick")
    /\ Finish(Pure(get_kick(call.args[1], call.args[2], call.args[3]),
                   <<"get_kick">>, locale))

NextKick == CallGetKick

SpecKick == InitKick /\ [][NextKick]_vars

\* matlab.py alone: four arrays are saved, then the file is loaded.  The shapes
\* of the four arrays are independent of each other.
InitMatlab ==
    \E filename \in MatNames, dtype \in Dtypes,
       rows \in [1..4 -> 1..MaxChannels], cols \in [1..4 -> 0..MaxSamples] :
        /\ Pending(Call("save_timeanalys",
                        <<filename>> \o [g \in 1..4 |-> Capture(g, dtype, rows[g], cols[g])],
                        NoEnv))
        /\ locale = "C"

CallSaveTimeanalys ==
    /\ Ready("save_timeanalys")
    /\ LET r == save_timeanalys(call.args[1], call.args[2], call.args[3],
                                call.args[4], call.args[5], locale)
       IN  /\ pc' = IF r.out.kind = "return" THEN "saved" ELSE "done"
           /\ calls' = r.calls
           /\ ret' = r.out
           /\ locale' = r.locale
           /\ disk' = r.disk
           /\ http' = r.http
    /\ UNCHANGED call

\* load_timeanalys(filename) with the name the file was saved under.
CallLoadTimeanalys ==
    /\ pc = "saved"
    /\ disk.written /\ disk.name = call.args[1]
    /\ LET r == load_timeanalys(disk, locale)
       IN  /\ pc' = "done"
           /\ calls' = calls \o r.calls
           /\ ret' = r.out
           /\ locale' = r.locale
    /\ UNCHANGED <<call, disk, http>>

NextMatlab ==
    \/ CallSaveTimeanalys
    \/ CallLoadTimeanalys

SpecMatlab == InitMatlab /\ [][NextMatlab]_vars

----------------------------------------------------------------------------
(* Properties *)

Done(fn) == pc = "done" /\ call.fn = fn

Failed(err) == ret.kind = "raise" /\ ret.err = err

Provided(item) == item # None

IsArray2D(item) == item.type = "ndarray" /\ Len(item.v) = 2

GroupNames == <<"BPMx", "BPMy", "CMx", "CMy">>

\* The channel groups the constructor was given are arrays of two dimensions
\* where they are provided.
ProvidedAreArrays2D(args) == \A i \in 1..4 : Provided(args[i]) => IsArray2D(args[i])

\* C1: constructing an orbit record in which two provided channel-group arrays
\* have different sample counts fails with InconsistentSampleCount, naming an
\* offending field, its sample count and the other count; no record is returned.
C1_MismatchFails ==
    (/\ Done("OrbitData")
     /\ ProvidedAreArrays2D(call.args)
     /\ \E i, j \in 1..4 : /\ Provided(call.args[i]) /\ Provided(call.args[j])
                           /\ call.args[i].v[2] # call.args[j].v[2])
    => /\ Failed("InconsistentSampleCount")
       /\ \E i, j \in 1..4 :
            /\ Provided(call.args[i]) /\ Provided(call.args[j])
            /\ call.args[i].v[2] # call.args[j].v[2]
            /\ ret.info = <<GroupNames[j], call.args[j].v[2], call.args[i].v[2]>>

\* C2: in every orbit record that construction returns, each provided channel
\* group is 2-dimensional and its sample count is the record's sample_number
\* (so all provided groups share one sample count).
C2_RecordInvariant ==
    (pc = "done" /\ calls # <<>> /\ calls[Len(calls)] = "OrbitData"
        /\ ret.kind = "return")
    => LET rec == ret.value
           groups == <<rec.BPMx, rec.BPMy, rec.CMx, rec.CMy>>
       IN  \A i \in 1..4 :
             Provided(groups[i]) =>
                /\ Len(groups[i].v) = 2
                /\ rec.sample_number = groups[i].v[2]

\* C10: constructing an orbit record with any subset of the four channel groups
\* omitted (None) succeeds whenever the provided ones are 2-dimensional arrays
\* that share one sample count.
C10_OmittedGroupsAccepted ==
    (/\ Done("OrbitData")
     /\ ProvidedAreArrays2D(call.args)
     /\ \A i, j \in 1..4 : (Provided(call.args[i]) /\ Provided(call.args[j]))
                            => call.args[i].v[2] = call.args[j].v[2])
    => ret.kind = "return"

\* C3: load_orbit routes by argument count and extension: one argument goes to
\* the loader of its extension (.hdf5, .mat, .npy) and any other extension fails
\* with UnsupportedFormat naming the file; two and three arguments are handed to
\* the archiver client; any other count fails with InvalidArguments.
C3_Dispatch ==
    Done("load_orbit") =>
        LET n == Len(call.args)
            ext == splitext(call.args[1])[2]
            Entered(fn) == \E k \in 1..Len(calls) : calls[k] = fn
        IN  IF n = 1
            THEN IF ext = HDF5 THEN Entered("load_orbit_hdf5")
                 ELSE IF ext = MAT THEN Entered("load_orbit_dump")
                 ELSE IF ext = NPY THEN Entered("load_orbit_npy")
                 ELSE Failed("UnsupportedFormat") /\ ret.info = <<call.args[1]>>
            ELSE IF n = 2 \/ n = 3
            THEN /\ Entered("Archiver.read")
                 /\ ret.kind = "return" => ret.value = filter_camonitor(call.env.response.body)
            ELSE Failed("InvalidArguments")

\* C4: load_orbit_dump fails with MissingField naming an absent key whenever one
\* of the six required keys is absent (the version, where present, being '1.0'),
\* and with UnsupportedVersion when __version__ is present but not '1.0'.
C4_MissingKeyNamed ==
    Done("load_orbit_dump") =>
        LET data == call.env.file
            lacking == { DumpKeys[i] : i \in { j \in 1..Len(DumpKeys) :
                                               ~dump_has(data, DumpKeys[j]) } }
        IN  /\ (lacking # {} /\ data.version \in {"absent", "1.0"})
                => Failed("MissingField") /\ ret.info[1] \in lacking
            /\ (lacking = {} /\ data.version # "1.0")
                => Failed("UnsupportedVersion")

\* C5: load_orbit_npy and load_orbit_hdf5 apply the same version gate: no
\* __version__ tag fails with MissingVersion, a tag other than '1.0' fails with
\* UnsupportedVersion naming it, and a record is returned only for tag '1.0'.
C5_VersionGate ==
    (pc = "done" /\ call.fn \in {"load_orbit_npy", "load_orbit_hdf5"}) =>
        LET version == call.env.file.version
        IN  /\ version = "absent" => Failed("MissingVersion")
            /\ version \notin {"absent", "1.0"}
                => Failed("UnsupportedVersion") /\ ret.info = <<version>>
            /\ ret.kind = "return" => version = "1.0"

\* The end time Archiver.read works with: the start time when none is given.
EndTime(args) == IF args[3] = None THEN args[2] ELSE args[3]

BothTimes(args) == args[2].type = "datetime" /\ EndTime(args).type = "datetime"

\* C6: Archiver.read fails with TypeMismatch when a time is no timestamp, else
\* with InvalidRange when start_time > end_time, else with InvalidRange when
\* end_time is later than now; it sends the HTTP request exactly when
\* start_time <= end_time <= now.
C6_ReadRejectsBadTimes ==
    Done("Archiver.read") =>
        LET start == call.args[2].v[1]
            end == EndTime(call.args).v[1]
        IN  /\ ~BothTimes(call.args) => Failed("TypeMismatch")
            /\ (BothTimes(call.args) /\ start > end) => Failed("InvalidRange")
            /\ (BothTimes(call.args) /\ start <= end /\ end > call.env.now)
                => Failed("InvalidRange")
            /\ http.sent <=> (/\ BothTimes(call.args)
                              /\ start <= end /\ end <= call.env.now)

\* C6 witness: a request whose end time is one instant after now, its start
\* time not after its end time, was refused with InvalidRange.
C6_Witness ==
    /\ Done("Archiver.read")
    /\ BothTimes(call.args)
    /\ call.args[2].v[1] < EndTime(call.args).v[1]
    /\ call.args[2].v[1] <= call.env.now
    /\ EndTime(call.args).v[1] = call.env.now + 1
    /\ Failed("InvalidRange")
    /\ ~http.sent

\* C7: get_kick's winning index i_best is the smallest index whose residual
\* equals the minimum residual: no window has a smaller residual and no earlier
\* window has an equal one.
C7_EarliestMinimum ==
    Done("get_kick") =>
        LET fits == call.args[3]
            best == ret.value.i_best + 1
        IN  /\ best \in 1..Len(fits)
            /\ \A j \in 1..Len(fits) : fits[j].rms >= fits[best].rms
            /\ \A j \in 1..(best - 1) : fits[j].rms > fits[best].rms

\* C7 witness: two windows share the minimal residual and the lower index won.
C7_Witness ==
    /\ Done("get_kick")
    /\ Len(call.args[3]) >= 2
    /\ \A j \in 1..Len(call.args[3]) : call.args[3][j].rms = call.args[3][1].rms
    /\ call.args[3][1].rms > 0
    /\ ret.value.i_best = 0

\* C8: in get_kick, k = floor((apriori_phase + c)/pi + tune) also when that
\* quantity is negative, the two candidates are -c - pi*tune + k*pi and
\* -c - pi*tune + (k+1)*pi, and the kick phase returned is the candidate closer
\* to apriori_phase.
C8_PhaseFolding ==
    Done("get_kick") =>
        LET phase == call.args[1]
            tune == call.args[2]
            c == ret.value.cos_coefficients[2]
            apriori_phase == phase[ret.value.i_best + 1]
            k == (apriori_phase + c + tune) \div PiDen
            candidates == << -c - tune + k * PiDen, -c - tune + (k + 1) * PiDen >>
        IN  /\ ret.value.k = k
            /\ ret.value.solutions = candidates
            /\ \E i \in 1..2 :
                 /\ ret.value.kick_phase = candidates[i]
                 /\ \A j \in 1..2 : Abs(candidates[i] - apriori_phase)
                                      <= Abs(candidates[j] - apriori_phase)

EndsWith(name, suffix) ==
    /\ Len(name) >= Len(suffix)
    /\ SubSeq(name, Len(name) - Len(suffix) + 1, Len(name)) = suffix

\* C9: a save_orbit_hdf5 that returns has written to a file whose name carries
\* .hdf5 exactly once: a name that already ends in .hdf5 is used unchanged, any
\* other name gets .hdf5 appended.
C9_SuffixOnce ==
    (Done("save_orbit_hdf5") /\ ret.kind = "return") =>
        /\ disk.written
        /\ disk.name = IF EndsWith(call.args[1], HDF5) THEN call.args[1]
                       ELSE call.args[1] \o HDF5

\* C11: load_orbit_dump leaves the process locale as it was before the call on
\* every exit path, whether it returns a record or fails (a header without
\* 'Created on: ', a date text that does not parse).
C11_LocaleUnchanged == [][CallLoadOrbitDump => locale' = locale]_vars

CurrentWeekIndex == "/opt/Archive/current_week/index"

MasterIndex == "/opt/Archive/master_index"

\* C12: the request Archiver.read sends names the current-week index exactly
\* when start_time has the ISO year and the ISO week of the wall clock, and the
\* master index for every other start_time, a start_time with the same week
\* number in an earlier year included.
C12_IndexByIsoWeek ==
    (Done("Archiver.read") /\ http.sent) =>
        http.INDEX = IF isocalendar(call.args[2].v[1]) = isocalendar(call.env.now)
                     THEN CurrentWeekIndex
                     ELSE MasterIndex

Loaded == pc = "done" /\ calls = <<"save_timeanalys", "load_timeanalys">>

\* The four arrays the caller saved.
Saved == SubSeq(call.args, 2, 5)

\* Array b has the shape and the values of array a.
SameShapeAndValues(a, b) == a.v = b.v /\ a.at = b.at

\* The load returned four arrays with the shapes and values of the four saved.
RoundTrip ==
    /\ ret.kind = "return"
    /\ Len(ret.value.v) = 4
    /\ \A g \in 1..4 : SameShapeAndValues(Saved[g], ret.value.v[g])

\* The four arrays share one sample count of at least one sample.
EqualSampleCounts(arrays) ==
    /\ arrays[1].v[2] >= 1
    /\ \A g \in 1..4 : arrays[g].v[2] = arrays[1].v[2]

\* C13 as stated: for any four [channel x sample] arrays, save_timeanalys
\* reports True and load_timeanalys on the same file then returns exactly those
\* four arrays, same shapes and values.
C13_RoundTripAny ==
    /\ pc = "saved" => ret = Return(TRUE)
    /\ pc = "done" => (Loaded /\ RoundTrip)

\* C13 amended: for four [channel x sample] arrays that share one sample count
\* of at least one, save_timeanalys reports True and load_timeanalys on the
\* same file then returns four arrays with the shapes and values of those saved.
C13_RoundTripEqualSamples ==
    EqualSampleCounts(Saved) =>
        /\ pc = "saved" => ret = Return(TRUE)
        /\ pc = "done" => (Loaded /\ RoundTrip)

\* A round trip of arrays of several samples whose channel counts differ.
C13_Witness ==
    /\ Loaded
    /\ RoundTrip
    /\ EqualSampleCounts(Saved)
    /\ Saved[1].v[2] >= 2
    /\ Saved[1].v[1] # Saved[2].v[1]
    /\ Saved[3].v[1] # Saved[4].v[1]

====
